---- MODULE Spec2Model ----
(***************************************************************************)
(* A model of the n88 8-bit CPU core: 16-bit register cells with 8-bit     *)
(* and masked views (register.rs), the FlagSetBits bit vector and the      *)
(* Adder ALU used by the CPU8 fixture (alu.rs, cpu.rs), the 64KB memory    *)
(* (memory.rs), and the CPU8 aggregate with its flag register, program     *)
(* counter, stack pointer and jump operations (cpu.rs, instruction.rs).    *)
(***************************************************************************)
EXTENDS Integers, Sequences, FiniteSets, TLC

(***************************************************************************)
(* Integer widths.  u8 and u16 values are the naturals below these moduli. *)
(***************************************************************************)
U8_MAX == 255
U16_MAX == 65535

Byte == 0..U8_MAX

\* bit i (0 = least significant) of the unsigned value x
Bit(x, i) == (x \div (2 ^ i)) % 2

(***************************************************************************)
(* Rust's `&`, `|` and `!` on unsigned integers (the BitwiseOps bound of   *)
(* lib.rs).  `!x` on a width with all-ones value allOn is allOn - x.       *)
(***************************************************************************)
RECURSIVE BitAnd(_, _)
BitAnd(a, b) ==
    IF a = 0 \/ b = 0 THEN 0
    ELSE (a % 2) * (b % 2) + 2 * BitAnd(a \div 2, b \div 2)

RECURSIVE BitOr(_, _)
BitOr(a, b) ==
    IF a = 0 THEN b
    ELSE IF b = 0 THEN a
    ELSE (IF a % 2 = 1 \/ b % 2 = 1 THEN 1 ELSE 0) + 2 * BitOr(a \div 2, b \div 2)

BitNot(allOn, a) == allOn - a

(***************************************************************************)
(* register.rs: typical::Register16 and its views.  A Register16 is its    *)
(* `bits: u16`; a loader or reader borrows the cell, so the operators take *)
(* the cell's bits and return the cell's new bits (load) or the value      *)
(* (read).                                                                 *)
(***************************************************************************)
Register16Load(r, bits) == bits

Register16Read(r) == r

\* Register16In8Reader::read: low ? (t & 0x00ff) as u8 : (t >> 8) as u8
Register16In8Read(r, low) ==
    LET t == Register16Read(r)
    IN  IF low THEN BitAnd(t, 255) ELSE t \div 256

\* a plausible slip: the low-half load clears the whole cell before merging
Register16In8LoadClobber(r, low, bits) ==
    IF low
    THEN Register16Load(r, bits)
    ELSE Register16Load(r, BitOr(BitAnd(Register16Read(r), BitNot(U16_MAX, 65280)), bits * 256))

\* Register16In8Loader::load
Register16In8Load(r, low, bits) ==
    LET t == IF low
             THEN BitOr(BitAnd(Register16Read(r), BitNot(U16_MAX, 255)), bits)
             ELSE BitOr(BitAnd(Register16Read(r), BitNot(U16_MAX, 65280)), bits * 256)
    IN  Register16Load(r, t)

\* a plausible slip: the masked merge keeps the old bits inside the mask too
MaskedRegisterLoadNoClear(old, mask, bits, allOn) ==
    BitOr(BitAnd(bits, mask), old)

\* MaskedRegisterLoader::load: the value handed to the inner loader, given
\* what the inner loader reads (old); allOn is B::ALL_ON of the width B
MaskedRegisterLoad(old, mask, bits, allOn) ==
    BitOr(BitAnd(bits, mask), BitAnd(old, BitNot(allOn, mask)))

\* MaskedRegisterLoader::read
MaskedRegisterRead(old, mask) == BitAnd(old, mask)

(***************************************************************************)
(* alu.rs: typical::FlagSetBits<u8>, a bit vector keyed by flags that      *)
(* convert into single-bit u8 values.                                      *)
(***************************************************************************)
\* FlagSetBits::default() / all_off()
FlagSetAllOff == 0

\* FlagSetBits::all_on()
FlagSetAllOn == U8_MAX

\* a plausible slip: the reset arm ands with the flag, not its complement
FlagSetChangeNoNot(bits, flag, set) ==
    IF set THEN BitOr(bits, flag) ELSE BitAnd(bits, flag)

\* FlagSetBits::change
FlagSetChange(bits, flag, set) ==
    IF set THEN BitOr(bits, flag) ELSE BitAnd(bits, BitNot(U8_MAX, flag))

\* FlagSet::set and FlagSet::reset, the provided methods
FlagSetSet(bits, flag) == FlagSetChange(bits, flag, TRUE)
FlagSetReset(bits, flag) == FlagSetChange(bits, flag, FALSE)

\* a plausible slip: get_flag tests the complement of the flag bit
FlagSetGetFlagInverted(bits, flag) == BitAnd(bits, flag) # flag

\* FlagSetBits::get_flag
FlagSetGetFlag(bits, flag) ==
    LET b == flag IN BitAnd(bits, b) = b

(***************************************************************************)
(* cpu.rs / alu.rs tests: the Adder ALU of the CPU8 fixture.  Its flags    *)
(* convert into u8 as Overflow => 1 (the carry/borrow out) and             *)
(* Signed => 2.                                                            *)
(***************************************************************************)
AdderFlagOverflow == 1
AdderFlagSigned == 2

AdderFlags == {AdderFlagOverflow, AdderFlagSigned}

\* u8::overflowing_add and u8::overflowing_sub
OverflowingAdd(a, b) ==
    [t |-> (a + b) % (U8_MAX + 1), overflowed |-> a + b > U8_MAX]

OverflowingSub(a, b) ==
    [t |-> (a - b) % (U8_MAX + 1), overflowed |-> a - b < 0]

\* a plausible slip: the sign test excludes 0x80 itself
AdderOpStrictSign(sub, a, b) ==
    LET r == IF sub THEN OverflowingSub(a, b) ELSE OverflowingAdd(a, b)
        flag1 == FlagSetChange(FlagSetAllOff, AdderFlagOverflow, r.overflowed)
        flag2 == FlagSetChange(flag1, AdderFlagSigned, r.t > 128)
    IN  [panicked |-> FALSE, res |-> r.t, flags |-> flag2]

\* <Adder as ALU>::op; control `sub`: if true, then sub
AdderOp(sub, a, b) ==
    LET r == IF sub THEN OverflowingSub(a, b) ELSE OverflowingAdd(a, b)
        flag1 == FlagSetChange(FlagSetAllOff, AdderFlagOverflow, r.overflowed)
        flag2 == FlagSetChange(flag1, AdderFlagSigned, r.t >= 128)
    IN  [panicked |-> FALSE, res |-> r.t, flags |-> flag2]

(***************************************************************************)
(* typical.rs: the 8080 ALU.  Its op is `todo!()`: every call panics and   *)
(* no (result, flags) pair is returned.                                    *)
(***************************************************************************)
I8080ALUControl ==
    {"Add", "Subtract", "BitAnd", "BitOr", "BitXor", "Increase", "Decrease", "Right"}

\* <I8080ALU as ALU>::op
I8080ALUOp(code, a, b) == [panicked |-> TRUE, res |-> -1, flags |-> -1]

(***************************************************************************)
(* memory.rs: Memory8Bit64KB, `bytes: [u8; 65536]`, all zero by default.   *)
(* The array is represented by its non-zero cells: a function from the     *)
(* addresses that hold a non-zero byte to that byte.  Every address is a   *)
(* u16, so every index is in range.                                        *)
(***************************************************************************)
MemoryDefault == [a \in {} |-> 0]

\* a plausible slip: the index is narrowed to u8 before it is used
MemoryReadTruncated(m, index) ==
    LET i == index % (U8_MAX + 1) IN IF i \in DOMAIN m THEN m[i] ELSE 0

\* Memory8Bit64KB::read
MemoryRead(m, index) == IF index \in DOMAIN m THEN m[index] ELSE 0

\* a plausible slip: the store lands one cell above the index
MemoryStoreOffByOne(m, index, data) ==
    LET i == (index + 1) % (U16_MAX + 1)
    IN  IF data = 0
        THEN [a \in DOMAIN m \ {i} |-> m[a]]
        ELSE [a \in DOMAIN m \cup {i} |-> IF a = i THEN data ELSE m[a]]

\* Memory8Bit64KB::store
MemoryStore(m, index, data) ==
    IF data = 0
    THEN [a \in DOMAIN m \ {index} |-> m[a]]
    ELSE [a \in DOMAIN m \cup {index} |-> IF a = index THEN data ELSE m[a]]

RECURSIVE MemoryNewFrom(_, _, _)
MemoryNewFrom(m, bytes, i) ==
    IF i > Len(bytes) THEN m
    ELSE MemoryNewFrom(MemoryStore(m, i - 1, bytes[i]), bytes, i + 1)

\* Memory8Bit64KB::new: store bytes[i] at address i
MemoryNew(bytes) == MemoryNewFrom(MemoryDefault, bytes, 1)

(***************************************************************************)
(* cpu.rs tests: the CPU8 aggregate.  A CPU8 is the record of its five     *)
(* Register16 cells and its memory; CPU8::default() is all zero.           *)
(***************************************************************************)
CPU8Default ==
    [af |-> 0, bc |-> 0, hl |-> 0, sp |-> 0, pc |-> 0, memory |-> MemoryDefault]

Register16Code == {"AF", "BC", "HL"}

\* <CPU8 as RegisterSet<Register16Code>>::loader_of(code).load(bits)
LoaderOf16(c, code, bits) ==
    CASE code = "AF" -> [c EXCEPT !.af = Register16Load(c.af, bits)]
      [] code = "HL" -> [c EXCEPT !.hl = Register16Load(c.hl, bits)]
      [] code = "BC" -> [c EXCEPT !.bc = Register16Load(c.bc, bits)]

\* CPUAccumulator::acc_reader().read(): the high half of AF
AccRead(c) == Register16In8Read(c.af, FALSE)

\* CPUFlagRegister::flag_reader().read(): the low half of AF
FlagRead(c) == Register16In8Read(c.af, TRUE)

\* a plausible slip: the masked flag loader is built over the high half of AF
FlagLoadMaskedHighHalf(c, flag_mask, bits) ==
    LET old == Register16In8Read(c.af, FALSE)
        res == MaskedRegisterLoad(old, flag_mask, bits, U8_MAX)
    IN  [c EXCEPT !.af = Register16In8Load(c.af, FALSE, res)]

\* CPUFlagRegister::flag_loader_masked(flag_mask).load(bits): a
\* MaskedRegisterLoader over the Register16In8Loader of AF's low half
FlagLoadMasked(c, flag_mask, bits) ==
    LET old == Register16In8Read(c.af, TRUE)
        res == MaskedRegisterLoad(old, flag_mask, bits, U8_MAX)
    IN  [c EXCEPT !.af = Register16In8Load(c.af, TRUE, res)]

\* CPUFlagRegister::flag_loader().load(bits)
FlagLoad(c, bits) == FlagLoadMasked(c, FlagSetAllOn, bits)

\* CPUFlagRegister::flag_on
FlagOn(c, flag) ==
    LET flags == FlagRead(c) IN FlagSetGetFlag(flags, flag)

\* a plausible slip: the left operand is read from the flag half of AF
AluAccOpFlagLhs(c, control, rhs) ==
    LET lhs == FlagRead(c) IN AdderOp(control, lhs, rhs)

\* CPUAlu::alu_acc_op: the ALU applied to (accumulator, rhs); nothing is
\* committed
AluAccOp(c, control, rhs) ==
    LET lhs == AccRead(c) IN AdderOp(control, lhs, rhs)

\* CPUProgramCounter::program_fetch as written: the byte at PC is returned
\* and the program counter is not loaded
ProgramFetch(c) ==
    LET index == Register16Read(c.pc)
    IN  [cpu |-> c, ret |-> MemoryRead(c.memory, index)]

\* CPUJump::jump: program_counter_loader().load(index)
Jump(c, index) == [c EXCEPT !.pc = Register16Load(c.pc, index)]

\* CPUJump::jump_on
JumpOn(c, index, flag) == IF FlagOn(c, flag) THEN Jump(c, index) ELSE c

(***************************************************************************)
(* CPUStackPointer::push / pop.  The trait only declares them and          *)
(* instruction.rs only calls them (typical::Push, typical::Pop); their     *)
(* bodies follow the design description: push decrements SP (wrapping) and *)
(* stores at the new SP, pop reads at SP and then increments SP (wrapping).*)
(***************************************************************************)
Push(c, bits) ==
    LET sp1 == (Register16Read(c.sp) - 1) % (U16_MAX + 1)
    IN  [c EXCEPT !.sp = Register16Load(c.sp, sp1),
                  !.memory = MemoryStore(c.memory, sp1, bits)]

Pop(c) ==
    LET sp0 == Register16Read(c.sp)
    IN  [cpu |-> [c EXCEPT !.sp = Register16Load(c.sp, (sp0 + 1) % (U16_MAX + 1))],
         ret |-> MemoryRead(c.memory, sp0)]

(***************************************************************************)
(* State.                                                                  *)
(*   reg                 a standalone Register16 (the register.rs tests)   *)
(*   regPre              its bits before the last operation on it          *)
(*   halfLow, halfHigh   the last byte loaded through each half view since *)
(*                       the last whole-cell load, -1 when there is none   *)
(*   aluIn, aluOut       the operands handed to an ALU and what op returned*)
(*   cpu                 the CPU8 aggregate                                *)
(*   pre                 the CPU8 aggregate before the last operation      *)
(*   last                the last operation: its name, arguments, result   *)
(*   steps               the number of CPU operations performed            *)
(*   pushed, popped      the bytes pushed and the bytes popped, in order   *)
(*   spStart             the stack pointer before the first push           *)
(*   jumpAddr, fetches   the target of the last jump taken (-1: none) and  *)
(*                       the number of program fetches since               *)
(*   runState, results   where a call of CPU::run stands, and what its     *)
(*                       calls of cycle() returned, in order               *)
(*   inst                the instruction (or operand) executed last        *)
(*   program             the instruction sequence being executed           *)
(*   flagSet             the bits of a FlagSetBits<u8> value               *)
(*   decoder             the fields of a CPU8Decoder                       *)
(***************************************************************************)
VARIABLES reg, regPre, halfLow, halfHigh, aluIn, aluOut, cpu, pre, last, steps,
          pushed, popped, spStart, jumpAddr, fetches, runState, results,
          inst, program, flagSet, decoder

vars == <<reg, regPre, halfLow, halfHigh, aluIn, aluOut, cpu, pre, last, steps,
          pushed, popped, spStart, jumpAddr, fetches, runState, results,
          inst, program, flagSet, decoder>>

regVars == <<reg, regPre, halfLow, halfHigh>>
aluVars == <<aluIn, aluOut>>
cpuVars == <<cpu, pre, steps>>
stackVars == <<pushed, popped, spStart>>
jumpVars == <<jumpAddr, fetches>>
runVars == <<runState, results>>
instVars == <<inst, program>>
auxVars == <<flagSet, decoder>>

Op(name, a, b, ret) == [op |-> name, a |-> a, b |-> b, ret |-> ret]

NoOp == Op("none", -1, -1, -1)

(***************************************************************************)
(* Bounds and input values.                                                *)
(***************************************************************************)
\* CPU operations per run
MaxSteps == 4
\* bytes pushed before the pops start
MaxPush == 5
\* length of the memory image memory[i] = i loaded before the run
ImageLen == 34
\* the small bytes 0..MaxSmallByte are among the byte inputs
MaxSmallByte == 0

ByteVals == (0..MaxSmallByte) \cup {86, 120, 255}
WordVals == {4660, 65535}
MaskVals16 == {0, 61680, 32769, 65535}

RegInit ==
    /\ reg = 0
    /\ regPre = 0
    /\ halfLow = -1
    /\ halfHigh = -1

AluIdle ==
    /\ aluIn = [alu |-> "none", control |-> FALSE, a |-> 0, b |-> 0]
    /\ aluOut = [panicked |-> FALSE, res |-> -1, flags |-> -1]

CpuIdle ==
    /\ cpu = CPU8Default
    /\ pre = CPU8Default
    /\ steps = 0

StackIdle ==
    /\ pushed = <<>>
    /\ popped = <<>>
    /\ spStart = 0

JumpIdle ==
    /\ jumpAddr = -1
    /\ fetches = 0

RunIdle ==
    /\ runState = "idle"
    /\ results = <<>>

InstIdle ==
    /\ inst = [k |-> "none"]
    /\ program = <<>>
    /\ flagSet = 0
    /\ decoder = [len |-> 0, buf |-> <<0, 0>>]

(***************************************************************************)
(* SpecReg: loads through the views of one Register16, as in the tests     *)
(* register_modifier and bitwise_loader.                                   *)
(***************************************************************************)
\* Register16::load / Register16Loader::load
RegLoad(bits) ==
    /\ reg' = Register16Load(reg, bits)
    /\ regPre' = reg
    /\ halfLow' = -1
    /\ halfHigh' = -1
    /\ last' = Op("load16", bits, -1, -1)
    /\ UNCHANGED <<aluVars, cpuVars, stackVars, jumpVars, runVars, instVars,
                 auxVars>>

\* Register16In8Loader::new(&mut reg, low).load(bits)
RegIn8Load(low, bits) ==
    /\ reg' = Register16In8Load(reg, low, bits)
    /\ regPre' = reg
    /\ halfLow' = IF low THEN bits ELSE halfLow
    /\ halfHigh' = IF low THEN halfHigh ELSE bits
    /\ last' = Op(IF low THEN "load_low" ELSE "load_high", bits, -1, -1)
    /\ UNCHANGED <<aluVars, cpuVars, stackVars, jumpVars, runVars, instVars,
                 auxVars>>

\* MaskedRegisterLoader::new(Register16Loader::new(&mut reg), mask): load(bits),
\* then read() through the same loader
RegMaskedLoad(mask, bits) ==
    LET res == MaskedRegisterLoad(Register16Read(reg), mask, bits, U16_MAX)
        new == Register16Load(reg, res)
    IN  /\ reg' = new
        /\ regPre' = reg
        /\ halfLow' = -1
        /\ halfHigh' = -1
        /\ last' = Op("masked_load", mask, bits, MaskedRegisterRead(Register16Read(new), mask))
        /\ UNCHANGED <<aluVars, cpuVars, stackVars, jumpVars, runVars, instVars,
                 auxVars>>

InitReg ==
    /\ RegInit /\ AluIdle /\ CpuIdle /\ StackIdle /\ JumpIdle /\ RunIdle /\ InstIdle
    /\ last = NoOp

NextReg ==
    \/ \E bits \in WordVals : RegLoad(bits)
    \/ \E low \in BOOLEAN, bits \in ByteVals : RegIn8Load(low, bits)
    \/ \E mask \in MaskVals16, bits \in WordVals : RegMaskedLoad(mask, bits)

SpecReg == InitReg /\ [][NextReg]_vars

(***************************************************************************)
(* C1 (byte-half aliasing).  A load through the low-half view leaves the   *)
(* high byte read back equal to v >> 8 of the cell's prior value v and     *)
(* makes the low byte the loaded one; a load through the high-half view    *)
(* leaves the low byte equal to v & 0xFF and makes the high byte the       *)
(* loaded one; and after any sequence of half-view loads each half reads   *)
(* as the last byte loaded into that half.                                 *)
(***************************************************************************)
C1_HalfViewsAlias ==
    /\ last.op = "load_low" =>
          /\ Register16In8Read(reg, FALSE) = regPre \div 256
          /\ Register16In8Read(reg, TRUE) = last.a
          /\ reg = (regPre \div 256) * 256 + last.a
    /\ last.op = "load_high" =>
          /\ Register16In8Read(reg, TRUE) = regPre % 256
          /\ Register16In8Read(reg, FALSE) = last.a
          /\ reg = last.a * 256 + (regPre % 256)
    /\ halfLow # -1 => Register16In8Read(reg, TRUE) = halfLow
    /\ halfHigh # -1 => Register16In8Read(reg, FALSE) = halfHigh

\* a low-half load into a cell whose high byte is non-zero and whose low byte
\* differed from the loaded one, after an earlier high-half load
C1_Witness ==
    /\ last.op = "load_low"
    /\ regPre \div 256 # 0
    /\ regPre % 256 # last.a
    /\ halfHigh # -1
    /\ halfHigh # last.a

(***************************************************************************)
(* C2 (masked merge).  After MaskedRegisterLoader::load(bits) with mask M  *)
(* on a register holding old, every bit of the register inside M is the    *)
(* bit of bits and every bit outside M is the bit of old, and the read()   *)
(* that follows through the same loader returns bits & M.                  *)
(***************************************************************************)
C2_MaskedLoadMerges ==
    last.op = "masked_load" =>
        /\ \A i \in 0..15 :
              Bit(reg, i) = IF Bit(last.a, i) = 1 THEN Bit(last.b, i) ELSE Bit(regPre, i)
        /\ \A i \in 0..15 : Bit(last.ret, i) = Bit(last.b, i) * Bit(last.a, i)
        /\ last.ret \in 0..U16_MAX

\* a masked load with a proper mask, over a register with bits set outside the
\* mask, of a value that differs from the register inside the mask and has
\* bits set outside it
C2_Witness ==
    /\ last.op = "masked_load"
    /\ last.a \notin {0, U16_MAX}
    /\ \E i \in 0..15 : Bit(last.a, i) = 0 /\ Bit(regPre, i) = 1 /\ Bit(last.b, i) = 0
    /\ \E i \in 0..15 : Bit(last.a, i) = 0 /\ Bit(regPre, i) = 0 /\ Bit(last.b, i) = 1
    /\ \E i \in 0..15 : Bit(last.a, i) = 1 /\ Bit(regPre, i) # Bit(last.b, i)

(***************************************************************************)
(* SpecAlu: one call of an ALU's op.  The operands are drawn by the        *)
(* initial state (every pair of bytes for the Adder), the call is the only *)
(* step.                                                                   *)
(***************************************************************************)
AluPending == [panicked |-> FALSE, res |-> -1, flags |-> -1]

\* Adder::op(sub, a, b)
AdderCall ==
    /\ aluIn.alu = "Adder"
    /\ aluOut = AluPending
    /\ aluOut' = AdderOp(aluIn.control, aluIn.a, aluIn.b)
    /\ UNCHANGED <<aluIn, regVars, cpuVars, stackVars, jumpVars, last, runVars, instVars,
                 auxVars>>

\* I8080ALU::op(code, a, b)
I8080ALUCall ==
    /\ aluIn.alu = "I8080ALU"
    /\ aluOut = AluPending
    /\ aluOut' = I8080ALUOp(aluIn.control, aluIn.a, aluIn.b)
    /\ UNCHANGED <<aluIn, regVars, cpuVars, stackVars, jumpVars, last, runVars, instVars,
                 auxVars>>

InitAlu ==
    /\ RegInit /\ CpuIdle /\ StackIdle /\ JumpIdle /\ RunIdle /\ InstIdle
    /\ last = NoOp
    /\ aluOut = AluPending
    /\ \/ \E sub \in BOOLEAN, a \in Byte, b \in Byte :
             aluIn = [alu |-> "Adder", control |-> sub, a |-> a, b |-> b]
       \/ \E code \in I8080ALUControl, a \in ByteVals, b \in ByteVals :
             aluIn = [alu |-> "I8080ALU", control |-> code, a |-> a, b |-> b]

NextAlu ==
    \/ AdderCall
    \/ I8080ALUCall

SpecAlu == InitAlu /\ [][NextAlu]_vars

(***************************************************************************)
(* C4 (wrapping add and subtract).  For all bytes a and b the Adder        *)
(* returns (a + b) mod 256 for Add with Carry (the Overflow bit, 1) set    *)
(* exactly when a + b > 255, and (a - b) mod 256 for Subtract with Carry   *)
(* set exactly when a < b; Sign (the Signed bit, 2) is set exactly when    *)
(* the result is >= 0x80; no other flag bit is set.                        *)
(***************************************************************************)
C4_AdderWraps ==
    (aluIn.alu = "Adder" /\ aluOut # AluPending) =>
        LET a == aluIn.a
            b == aluIn.b
            res == IF aluIn.control THEN (a - b) % 256 ELSE (a + b) % 256
            carry == IF aluIn.control THEN a < b ELSE a + b > 255
            sign == res >= 128
        IN  /\ ~aluOut.panicked
            /\ aluOut.res = res
            /\ aluOut.flags = (IF carry THEN 1 ELSE 0) + (IF sign THEN 2 ELSE 0)

\* the fixture values op(Subtract, 20, 50) = (226, {Carry, Sign})
C4_Witness ==
    /\ aluIn = [alu |-> "Adder", control |-> TRUE, a |-> 20, b |-> 50]
    /\ aluOut = [panicked |-> FALSE, res |-> 226, flags |-> 3]

(***************************************************************************)
(* C5 (ALU totality).  Every call of an ALU's op, for every control code   *)
(* and every pair of bytes, returns a (result, flags) pair: no call        *)
(* panics.                                                                 *)
(***************************************************************************)
C5_AluOpTotal ==
    aluOut # AluPending =>
        /\ ~aluOut.panicked
        /\ aluOut.res \in Byte
        /\ aluOut.flags \in Byte

(***************************************************************************)
(* Spec: the CPU8 aggregate under its register, flag, stack and program    *)
(* counter operations, from CPU8::default() with the memory either all     *)
(* zero or loaded with the image memory[i] = i.                            *)
(***************************************************************************)
Image == [i \in 1..ImageLen |-> (i - 1) % (U8_MAX + 1)]

RhsVals == {1, 200}
FlagMasks == {AdderFlagOverflow, AdderFlagSigned, FlagSetAllOn}
StackVals == {0, 3}
JumpVals == {31, U16_MAX}

Step(c, op) ==
    /\ steps < MaxSteps
    /\ steps' = steps + 1
    /\ pre' = cpu
    /\ cpu' = c
    /\ last' = op
    /\ UNCHANGED <<regVars, aluVars, stackVars, runVars, instVars, auxVars>>

\* Inst::LoadXRegisterImmediate(dst, x): cpu.loader_of(dst).load(x)
LoadXRegisterImmediate(dst, x) ==
    /\ Step(LoaderOf16(cpu, dst, x), Op("load_x", x, -1, -1))
    /\ UNCHANGED jumpVars

\* the flags of alu_acc_op(control, rhs) committed through
\* flag_loader_masked(mask): last.a is the mask, last.b the flags computed
FlagCommit(control, rhs, mask) ==
    LET r == AluAccOp(cpu, control, rhs)
    IN  /\ Step(FlagLoadMasked(cpu, mask, r.flags), Op("flag_commit", mask, r.flags, r.res))
        /\ UNCHANGED jumpVars

\* CPUStackPointer::push(bits)
DoPush(bits) ==
    /\ Step(Push(cpu, bits), Op("push", bits, -1, -1))
    /\ UNCHANGED jumpVars

\* CPUStackPointer::pop()
DoPop ==
    LET r == Pop(cpu)
    IN  /\ Step(r.cpu, Op("pop", -1, -1, r.ret))
        /\ UNCHANGED jumpVars

\* CPUProgramCounter::program_fetch()
DoProgramFetch ==
    LET r == ProgramFetch(cpu)
    IN  /\ Step(r.cpu, Op("program_fetch", -1, -1, r.ret))
        /\ fetches' = fetches + 1
        /\ UNCHANGED jumpAddr

\* CPUJump::jump(index), as Jump::execute calls it
DoJump(index) ==
    /\ Step(Jump(cpu, index), Op("jump", index, -1, -1))
    /\ jumpAddr' = index
    /\ fetches' = 0

\* CPUJump::jump_on(index, flag)
DoJumpOn(index, flag) ==
    LET c == JumpOn(cpu, index, flag)
    IN  /\ Step(c, Op("jump_on", index, flag, -1))
        /\ jumpAddr' = IF c.pc # cpu.pc THEN index ELSE jumpAddr
        /\ fetches' = IF c.pc # cpu.pc THEN 0 ELSE fetches

Init ==
    /\ RegInit /\ AluIdle /\ StackIdle /\ JumpIdle /\ RunIdle /\ InstIdle
    /\ last = NoOp
    /\ steps = 0
    /\ cpu \in {CPU8Default, [CPU8Default EXCEPT !.memory = MemoryNew(Image)]}
    /\ pre = cpu

Next ==
    \/ \E dst \in Register16Code, x \in WordVals : LoadXRegisterImmediate(dst, x)
    \/ \E control \in BOOLEAN, rhs \in RhsVals, mask \in FlagMasks :
          FlagCommit(control, rhs, mask)
    \/ \E bits \in StackVals : DoPush(bits)
    \/ DoPop
    \/ DoProgramFetch
    \/ \E index \in JumpVals : DoJump(index)
    \/ \E index \in JumpVals, flag \in AdderFlags : DoJumpOn(index, flag)

Spec == Init /\ [][Next]_vars

(***************************************************************************)
(* C3 (masked flag commit).  Committing ALU flags through                  *)
(* flag_loader_masked(M) changes nothing in the machine except             *)
(* flag-register bits that are in M: every flag bit outside M keeps its    *)
(* value, whatever the ALU computed for it, every bit inside M is the      *)
(* computed one, and the accumulator in the other half of AF, the other    *)
(* registers and the memory are unchanged.                                 *)
(***************************************************************************)
C3_FlagCommitFrame ==
    last.op = "flag_commit" =>
        /\ \A i \in 0..7 :
              Bit(cpu.af, i) = IF Bit(last.a, i) = 1 THEN Bit(last.b, i) ELSE Bit(pre.af, i)
        /\ cpu.af \div 256 = pre.af \div 256
        /\ AccRead(cpu) = AccRead(pre)
        /\ [cpu EXCEPT !.af = pre.af] = pre

\* a commit of {Carry} alone, with a non-zero accumulator, where the ALU
\* computed Sign set while the flag register holds Sign clear, and the
\* register holds further bits that are no ALU flag
C3_Witness ==
    /\ last.op = "flag_commit"
    /\ last.a = AdderFlagOverflow
    /\ Bit(last.b, 1) = 1
    /\ Bit(pre.af, 1) = 0
    /\ Bit(cpu.af, 1) = 0
    /\ AccRead(pre) # 0
    /\ FlagRead(pre) \div 4 # 0

(***************************************************************************)
(* C6 (stack order).  push(data) leaves SP = (old SP - 1) mod 65536 and    *)
(* the data at the new SP, every other memory cell (the one at the old SP  *)
(* included) and every other register unchanged; pop() returns the byte at *)
(* the old SP and leaves SP = (old SP + 1) mod 65536, memory and every     *)
(* other register unchanged.                                               *)
(***************************************************************************)
C6_PushPopOrder ==
    /\ last.op = "push" =>
          LET sp1 == (pre.sp + 65535) % 65536
          IN  /\ cpu.sp = sp1
              /\ MemoryRead(cpu.memory, sp1) = last.a
              /\ \A a \in (DOMAIN cpu.memory \cup DOMAIN pre.memory) \ {sp1} :
                    MemoryRead(cpu.memory, a) = MemoryRead(pre.memory, a)
              /\ MemoryRead(cpu.memory, pre.sp) = MemoryRead(pre.memory, pre.sp)
              /\ [cpu EXCEPT !.sp = pre.sp, !.memory = pre.memory] = pre
    /\ last.op = "pop" =>
          /\ last.ret = MemoryRead(pre.memory, pre.sp)
          /\ cpu.sp = (pre.sp + 1) % 65536
          /\ cpu.memory = pre.memory
          /\ [cpu EXCEPT !.sp = pre.sp] = pre

\* a push of a non-zero byte below an old SP whose cell holds another
\* non-zero byte, overwriting a non-zero cell
C6_Witness ==
    /\ last.op = "push"
    /\ last.a # 0
    /\ MemoryRead(pre.memory, pre.sp) \notin {0, last.a}
    /\ MemoryRead(pre.memory, cpu.sp) \notin {0, last.a}

(***************************************************************************)
(* C8 (program fetch).  program_fetch() returns the memory byte at the old *)
(* PC and leaves PC = (old PC + 1) mod 65536, changing nothing else.       *)
(***************************************************************************)
C8_FetchAdvancesPC ==
    last.op = "program_fetch" =>
        /\ last.ret = MemoryRead(pre.memory, pre.pc)
        /\ cpu.pc = (pre.pc + 1) % 65536
        /\ [cpu EXCEPT !.pc = pre.pc] = pre

(***************************************************************************)
(* C9 (jump).  jump(address) sets PC to address and changes no other       *)
(* register, flag or memory cell, and the k-th program_fetch after the     *)
(* jump returns memory[address + k - 1].                                   *)
(***************************************************************************)
C9_JumpThenFetch ==
    /\ last.op = "jump" =>
          /\ cpu.pc = last.a
          /\ [cpu EXCEPT !.pc = pre.pc] = pre
    /\ (last.op = "program_fetch" /\ jumpAddr # -1) =>
          last.ret = MemoryRead(cpu.memory, (jumpAddr + fetches - 1) % 65536)

(***************************************************************************)
(* C10 (conditional jump).  jump_on(address, flag) sets PC to address      *)
(* exactly when flag is set in the flag register at the call; when the     *)
(* flag is clear the whole machine state, PC included, is unchanged.  In   *)
(* both cases nothing but PC changes.                                      *)
(***************************************************************************)
C10_JumpOnFlag ==
    last.op = "jump_on" =>
        LET set == (pre.af \div last.b) % 2 = 1
        IN  /\ set => cpu = [pre EXCEPT !.pc = last.a]
            /\ ~set => cpu = pre

\* a jump taken on a flag that is set while the other ALU flag is clear,
\* moving PC
C10_Witness ==
    /\ last.op = "jump_on"
    /\ cpu.pc = last.a
    /\ pre.pc # last.a
    /\ \E g \in AdderFlags \ {last.b} : (pre.af \div g) % 2 = 0

(***************************************************************************)
(* SpecStack: a run of pushes followed by a run of pops, from a stack      *)
(* pointer set through CPUStackPointer::stack_pointer_loader() before the  *)
(* first push.                                                             *)
(***************************************************************************)
SpVals == {0, 1, 2, U16_MAX}
PushVals == {1, 3, 4, 5}

StackPush(bits) ==
    /\ popped = <<>>
    /\ Len(pushed) < MaxPush
    /\ cpu' = Push(cpu, bits)
    /\ pre' = cpu
    /\ pushed' = Append(pushed, bits)
    /\ last' = Op("push", bits, -1, -1)
    /\ UNCHANGED <<regVars, aluVars, jumpVars, steps, popped, spStart, runVars, instVars,
                 auxVars>>

StackPop ==
    LET r == Pop(cpu)
    IN  /\ Len(popped) < Len(pushed)
        /\ cpu' = r.cpu
        /\ pre' = cpu
        /\ popped' = Append(popped, r.ret)
        /\ last' = Op("pop", -1, -1, r.ret)
        /\ UNCHANGED <<regVars, aluVars, jumpVars, steps, pushed, spStart, runVars,
                     instVars, auxVars>>

InitStack ==
    /\ RegInit /\ AluIdle /\ JumpIdle /\ RunIdle /\ InstIdle
    /\ last = NoOp
    /\ steps = 0
    /\ pushed = <<>>
    /\ popped = <<>>
    /\ spStart \in SpVals
    /\ \E m \in {MemoryDefault, MemoryNew(Image)} :
          cpu = [CPU8Default EXCEPT !.sp = spStart, !.memory = m]
    /\ pre = cpu

NextStack ==
    \/ \E bits \in PushVals : StackPush(bits)
    \/ StackPop

SpecStack == InitStack /\ [][NextStack]_vars

(***************************************************************************)
(* C7 (LIFO round trip).  After n pushes of d1..dn, the pops that follow   *)
(* return dn, dn-1, ... in that order, and once n pops are done SP is back *)
(* at its value before the first push, also when SP wrapped through        *)
(* 0x0000/0xFFFF on the way.                                               *)
(***************************************************************************)
C7_StackLIFO ==
    /\ \A i \in 1..Len(popped) : popped[i] = pushed[Len(pushed) + 1 - i]
    /\ cpu.sp = (spStart + 65536 - Len(pushed) + Len(popped)) % 65536
    /\ (Len(popped) = Len(pushed)) => cpu.sp = spStart

\* [3,1,4,1,5] pushed from SP = 2, so that SP wraps to 0xFFFF, and popped
\* back as [5,1,4,1,3]
C7_Witness ==
    /\ pushed = <<3, 1, 4, 1, 5>>
    /\ popped = <<5, 1, 4, 1, 3>>
    /\ spStart = 2
    /\ cpu.sp = 2
    /\ MemoryRead(cpu.memory, U16_MAX) = 4


(***************************************************************************)
(* The run loop: CPU::run over CPURunningState.                            *)
(*                                                                         *)
(* cycle() is a required method of the trait; what it returns is the       *)
(* implementor's business, so a call of it is an input drawn from the      *)
(* three variants.  The one implementor in the repository, I8080, has      *)
(* todo!() for the bodies of both cycle and run.                           *)
(***************************************************************************)
MaxCycles == 48

CPURunningState == {"Running", "Halted", "Error"}

RunLoopContinuesOnError(r) == r \in {"Running", "Error"}

\* while let CPURunningState::Running = self.cycle() {}
RunLoopContinues(r) == r = "Running"

\* fn cycle(self) -> Self { todo!() }
I8080Cycle(opcode) == [panicked |-> TRUE, state |-> "none"]

\* fn run(self) -> Option<Self> { todo!() }
I8080Run == [panicked |-> TRUE, state |-> "none"]

OpcodeVals == {0, 2, 118, 255}

RunCall ==
    /\ runState = "idle"
    /\ runState' = "looping"
    /\ last' = Op("run", 0, 0, 0)
    /\ UNCHANGED <<results, regVars, aluVars, cpuVars, stackVars, jumpVars, instVars,
                 auxVars>>

\* One turn of the loop: the call of cycle() and the test of what it returned.
CycleCall(r) ==
    /\ runState = "looping"
    /\ Len(results) < MaxCycles
    /\ results' = Append(results, r)
    /\ runState' = IF RunLoopContinues(r) THEN "looping" ELSE "returned"
    /\ last' = Op("cycle", Len(results), 0, 0)
    /\ UNCHANGED <<regVars, aluVars, cpuVars, stackVars, jumpVars, instVars,
                 auxVars>>

I8080CycleCall(opcode) ==
    /\ runState = "idle"
    /\ LET out == I8080Cycle(opcode)
       IN  /\ runState' = IF out.panicked THEN "panicked" ELSE "cycled"
           /\ results' = IF out.panicked THEN <<"panic">> ELSE <<out.state>>
    /\ last' = Op("I8080::cycle", opcode, 0, 0)
    /\ UNCHANGED <<regVars, aluVars, cpuVars, stackVars, jumpVars, instVars,
                 auxVars>>

I8080RunCall ==
    /\ runState = "idle"
    /\ runState' = IF I8080Run.panicked THEN "panicked" ELSE "returned"
    /\ results' = <<>>
    /\ last' = Op("I8080::run", 0, 0, 0)
    /\ UNCHANGED <<regVars, aluVars, cpuVars, stackVars, jumpVars, instVars,
                 auxVars>>

InitRun ==
    /\ RegInit /\ AluIdle /\ StackIdle /\ JumpIdle /\ RunIdle /\ InstIdle
    /\ cpu = CPU8Default
    /\ pre = CPU8Default
    /\ steps = 0
    /\ last = NoOp

NextRun ==
    \/ RunCall
    \/ \E r \in CPURunningState : CycleCall(r)
    \/ \E opcode \in OpcodeVals : I8080CycleCall(opcode)
    \/ I8080RunCall

SpecRun == InitRun /\ [][NextRun]_vars

\* C11: run() calls cycle() at least once, goes on calling it while every
\* call so far returned Running, and has returned exactly when the latest
\* call returned Halted or Error; that terminal result is the last call.
C11_RunUntilTerminal ==
    /\ runState = "looping" =>
           \A i \in 1..Len(results) : results[i] = "Running"
    /\ runState = "returned" /\ last.op = "cycle" =>
           /\ Len(results) >= 1
           /\ results[Len(results)] \in {"Halted", "Error"}
           /\ \A i \in 1..(Len(results) - 1) : results[i] = "Running"
    /\ last.op = "cycle" =>
           (runState = "returned" <=>
                \E i \in 1..Len(results) : results[i] \in {"Halted", "Error"})

C11_Witness ==
    /\ runState = "returned"
    /\ last.op = "cycle"
    /\ Len(results) = 4
    /\ results[4] = "Error"

\* C12: a cycle() whose fetched opcode cannot be decoded returns Error, and
\* the machine is not Running afterwards.
C12_DecodeFailureIsError ==
    last.op = "I8080::cycle" =>
        /\ runState # "panicked"
        /\ results = <<"Error">>

(***************************************************************************)
(* cpu.rs tests: the 8-bit register codes of CPU8, the Addressing8         *)
(* operands and the Inst instructions.                                     *)
(*                                                                         *)
(* An operand is a record [mode, v, reg]: v is the literal or the address  *)
(* (0 when the mode has none), reg the register code ("-" when none).  An  *)
(* instruction is a record [k, dst, x, control, addr].                     *)
(***************************************************************************)
Register8Code == {"A", "B", "C", "H", "L"}

\* a plausible slip: A is taken for a low half
Register8CodeIsLowA(code) == code \in {"A", "L", "C"}

\* Register8Code::is_low
Register8CodeIsLow(code) == code \in {"L", "C"}

\* <CPU8 as RegisterSet<Register8Code>>::loader_of(code).load(bits)
LoaderOf8(c, code, bits) ==
    LET low == Register8CodeIsLow(code)
    IN  CASE code = "A" -> [c EXCEPT !.af = Register16In8Load(c.af, low, bits)]
          [] code \in {"H", "L"} -> [c EXCEPT !.hl = Register16In8Load(c.hl, low, bits)]
          [] code \in {"B", "C"} -> [c EXCEPT !.bc = Register16In8Load(c.bc, low, bits)]

\* <CPU8 as RegisterSet<Register8Code>>::reader_of(code).read()
ReaderOf8(c, code) ==
    LET low == Register8CodeIsLow(code)
    IN  CASE code = "A" -> Register16In8Read(c.af, low)
          [] code \in {"H", "L"} -> Register16In8Read(c.hl, low)
          [] code \in {"B", "C"} -> Register16In8Read(c.bc, low)

\* <CPU8 as RegisterSet<Register16Code>>::reader_of(code).read()
ReaderOf16(c, code) ==
    CASE code = "AF" -> Register16Read(c.af)
      [] code = "HL" -> Register16Read(c.hl)
      [] code = "BC" -> Register16Read(c.bc)

Immediate(v) == [mode |-> "Immediate", v |-> v, reg |-> "-"]
ImmediateRegister(code) == [mode |-> "ImmediateRegister", v |-> 0, reg |-> code]
DirectMemory(index) == [mode |-> "DirectMemory", v |-> index, reg |-> "-"]
Indirect(code) == [mode |-> "Indirect", v |-> 0, reg |-> code]

\* a plausible slip: Indirect returns the low byte of the pair instead of
\* the memory cell the pair points to
Addressing8ValueNoDeref(addr, c) ==
    CASE addr.mode = "Immediate" -> addr.v
      [] addr.mode = "ImmediateRegister" -> ReaderOf8(c, addr.reg)
      [] addr.mode = "DirectMemory" -> MemoryRead(c.memory, addr.v)
      [] addr.mode = "Indirect" -> ReaderOf16(c, addr.reg) % (U8_MAX + 1)

\* <Addressing8 as Addressing>::value
RECURSIVE Addressing8Value(_, _)
Addressing8Value(addr, c) ==
    CASE addr.mode = "Immediate" -> addr.v
      [] addr.mode = "ImmediateRegister" -> ReaderOf8(c, addr.reg)
      [] addr.mode = "DirectMemory" -> MemoryRead(c.memory, addr.v)
      [] addr.mode = "Indirect" ->
             Addressing8Value(DirectMemory(ReaderOf16(c, addr.reg)), c)

NoAddr == [mode |-> "-", v |-> 0, reg |-> "-"]

InstLoad(dst, addr) ==
    [k |-> "Load", dst |-> dst, x |-> 0, control |-> FALSE, addr |-> addr]
InstLoadXRegisterImmediate(dst, x) ==
    [k |-> "LoadXRegisterImmediate", dst |-> dst, x |-> x, control |-> FALSE,
     addr |-> NoAddr]
InstStoreRegister(src) ==
    [k |-> "StoreRegister", dst |-> src, x |-> 0, control |-> FALSE, addr |-> NoAddr]
InstArithmetic(control, dst, addr) ==
    [k |-> "Arithmetic", dst |-> dst, x |-> 0, control |-> control, addr |-> addr]
InstNop == [k |-> "Nop", dst |-> "-", x |-> 0, control |-> FALSE, addr |-> NoAddr]
InstStoreDirect(index) ==
    [k |-> "StoreDirect", dst |-> "-", x |-> index, control |-> FALSE, addr |-> NoAddr]

\* a plausible slip: Arithmetic moves the operand into the destination
\* first and computes afterwards
InstExecuteWriteFirst(i, c) ==
    CASE i.k = "Load" ->
             LET v == Addressing8Value(i.addr, c) IN LoaderOf8(c, i.dst, v)
      [] i.k = "LoadXRegisterImmediate" -> LoaderOf16(c, i.dst, i.x)
      [] i.k = "StoreRegister" ->
             LET bits == ReaderOf8(c, i.dst)
                 index == ReaderOf16(c, "HL")
             IN  [c EXCEPT !.memory = MemoryStore(c.memory, index, bits)]
      [] i.k = "Arithmetic" ->
             LET c0 == LoaderOf8(c, i.dst, Addressing8Value(i.addr, c))
                 r == AluAccOp(c0, i.control, Addressing8Value(i.addr, c0))
                 c1 == FlagLoad(c0, r.flags)
             IN  LoaderOf8(c1, i.dst, r.res)
      [] OTHER -> c

\* <Inst as Instruction<CPU8>>::execute
InstExecute(i, c) ==
    CASE i.k = "Load" ->
             LET v == Addressing8Value(i.addr, c) IN LoaderOf8(c, i.dst, v)
      [] i.k = "LoadXRegisterImmediate" -> LoaderOf16(c, i.dst, i.x)
      [] i.k = "StoreRegister" ->
             LET bits == ReaderOf8(c, i.dst)
                 index == ReaderOf16(c, "HL")
             IN  [c EXCEPT !.memory = MemoryStore(c.memory, index, bits)]
      [] i.k = "Arithmetic" ->
             LET rhs == Addressing8Value(i.addr, c)
                 r == AluAccOp(c, i.control, rhs)
                 c1 == FlagLoad(c, r.flags)
             IN  LoaderOf8(c1, i.dst, r.res)
      [] OTHER -> c

(***************************************************************************)
(* SpecProgram: the instruction sequence of tests::instruction run from    *)
(* CPU8::default(), for the fixture's operands and for other ones.         *)
(***************************************************************************)
TestProgram(x, y, control, w) ==
    <<InstLoad("A", Immediate(x)),
      InstLoad("B", Immediate(y)),
      InstArithmetic(control, "A", ImmediateRegister("B")),
      InstLoadXRegisterImmediate("HL", w),
      InstStoreRegister("A")>>

ProgramBytes == {0, 10, 32, 200, 255}
ProgramAddrs == {0, 12609, 65535}

\* instructions.into_iter().for_each(|i| i.execute(m)): one turn
ExecuteNext ==
    /\ steps < Len(program)
    /\ steps' = steps + 1
    /\ inst' = program[steps + 1]
    /\ pre' = cpu
    /\ cpu' = InstExecute(program[steps + 1], cpu)
    /\ last' = Op("execute", steps + 1, -1, -1)
    /\ UNCHANGED <<program, regVars, aluVars, stackVars, jumpVars, runVars,
                 auxVars>>

InitProgram ==
    /\ RegInit /\ AluIdle /\ StackIdle /\ JumpIdle /\ RunIdle
    /\ inst = [k |-> "none"]
    /\ flagSet = 0
    /\ decoder = [len |-> 0, buf |-> <<0, 0>>]
    /\ program \in {TestProgram(x, y, control, w) :
                        x \in ProgramBytes, y \in ProgramBytes,
                        control \in BOOLEAN, w \in ProgramAddrs}
    /\ cpu = CPU8Default
    /\ pre = CPU8Default
    /\ steps = 0
    /\ last = NoOp

NextProgram == ExecuteNext

SpecProgram == InitProgram /\ [][NextProgram]_vars

\* C13: from the default machine, Load A<-10, Load B<-32, Arithmetic(Add)
\* A<-A+B, HL<-0x3141, store A at the address in HL leaves A = 42 and
\* memory[0x3141] = 42; for other operands x, y and address w it leaves
\* A = memory[w] = x + y (x - y for the subtraction), modulo 256.
C13_EndToEnd ==
    steps = Len(program) =>
        LET x == program[1].addr.v
            y == program[2].addr.v
            w == program[4].x
            sum == IF program[3].control THEN (x - y) % 256 ELSE (x + y) % 256
        IN  /\ cpu.af \div 256 = sum
            /\ MemoryRead(cpu.memory, w) = sum
            /\ (x = 10 /\ y = 32 /\ ~program[3].control /\ w = 12609) =>
                   /\ cpu.af \div 256 = 42
                   /\ cpu.memory[12609] = 42

C13_Witness ==
    /\ steps = Len(program)
    /\ program = TestProgram(10, 32, FALSE, 12609)
    /\ inst.k = "StoreRegister"
    /\ cpu.af \div 256 = 42
    /\ MemoryRead(cpu.memory, 12609) = 42

(***************************************************************************)
(* SpecInst: single instructions, operand resolutions, alu_acc_op calls,   *)
(* typical::Arithmetic and typical::Condition on a CPU8, from              *)
(* CPU8::default() and from two machines with registers, flags and memory  *)
(* already loaded.                                                         *)
(***************************************************************************)
MaxInstSteps == 2

\* a plausible slip: an Indirect resolution post-increments the pair it
\* went through
Addressing8ResolveAdvancing(addr, c) ==
    [cpu |-> IF addr.mode = "Indirect"
             THEN LoaderOf16(c, addr.reg, (ReaderOf16(c, addr.reg) + 1) % (U16_MAX + 1))
             ELSE c,
     ret |-> Addressing8Value(addr, c)]

\* Addressing::value(self, cpu: &C): the machine is borrowed shared, the
\* value is all that comes back
Addressing8Resolve(addr, c) == [cpu |-> c, ret |-> Addressing8Value(addr, c)]

\* FlagSetBits::from_slice: the or of the listed flags
FlagSetFromSlice(flags) ==
    LET RECURSIVE Fold(_, _)
        Fold(S, acc) ==
            IF S = {} THEN acc
            ELSE LET f == CHOOSE f \in S : TRUE
                 IN  Fold(S \ {f}, FlagSetChange(acc, f, TRUE))
    IN  Fold(flags, FlagSetAllOff)

\* CPUFlagRegister::flag_loader_mask_slice(flag_masks).load(bits): the body
\* does not read flag_masks, the loader is flag_loader_masked(all_on())
FlagLoadMaskSlice(c, flag_masks, bits) == FlagLoadMasked(c, FlagSetAllOn, bits)

\* typical::Arithmetic::execute (the body is commented out in the source)
ArithmeticExecute(control, flags, dst, rhsAddr, c) ==
    LET rhs == Addressing8Value(rhsAddr, c)
        r == AluAccOp(c, control, rhs)
        c1 == FlagLoadMaskSlice(c, flags, r.flags)
    IN  LoaderOf8(c1, dst, r.res)

\* the predicates a Condition is built with: closures over the machine
CondVals == {"Overflow", "Signed", "AccZero", "Always", "Never"}

CondEval(cond, c) ==
    CASE cond = "Overflow" -> FlagOn(c, AdderFlagOverflow)
      [] cond = "Signed" -> FlagOn(c, AdderFlagSigned)
      [] cond = "AccZero" -> AccRead(c) = 0
      [] cond = "Always" -> TRUE
      [] cond = "Never" -> FALSE

\* a plausible slip: the guard is inverted
ConditionExecuteInverted(cond, then, c) ==
    IF ~CondEval(cond, c) THEN InstExecute(then, c) ELSE c

\* typical::Condition::execute
ConditionExecute(cond, then, c) ==
    IF CondEval(cond, c) THEN InstExecute(then, c) ELSE c

SeededA ==
    [af |-> 51201, bc |-> 8292, hl |-> 3, sp |-> 0, pc |-> 0,
     memory |-> MemoryNew(Image)]

SeededB ==
    [af |-> 130, bc |-> 65535, hl |-> 65535, sp |-> 0, pc |-> 0,
     memory |-> MemoryStore(MemoryStore(MemoryDefault, 65535, 77), 130, 9)]

InstStarts == {CPU8Default, SeededA, SeededB}

InstVals ==
    {InstLoad("A", Immediate(10)), InstLoad("B", ImmediateRegister("A")),
     InstLoad("L", DirectMemory(3)), InstLoad("C", Indirect("HL")),
     InstLoad("H", ImmediateRegister("L")),
     InstLoadXRegisterImmediate("HL", 12609),
     InstLoadXRegisterImmediate("AF", 33023),
     InstStoreRegister("A"), InstStoreRegister("C"),
     InstArithmetic(FALSE, "A", ImmediateRegister("B")),
     InstArithmetic(TRUE, "A", ImmediateRegister("A")),
     InstArithmetic(FALSE, "B", Immediate(100)),
     InstArithmetic(FALSE, "B", ImmediateRegister("B")),
     InstArithmetic(TRUE, "A", Indirect("AF")),
     InstStoreRegister("L"),
     InstNop, InstStoreDirect(5)}

AddrVals ==
    {Immediate(7), Immediate(255), ImmediateRegister("A"), ImmediateRegister("C"),
     ImmediateRegister("L"), DirectMemory(3), DirectMemory(65535),
     Indirect("HL"), Indirect("BC"), Indirect("AF")}

OperandVals == {1, 100, 200}
ThenVals ==
    {InstLoad("A", Immediate(10)), InstStoreRegister("C"),
     InstArithmetic(FALSE, "A", ImmediateRegister("B"))}

InstStep(c, op, i) ==
    /\ steps < MaxInstSteps
    /\ steps' = steps + 1
    /\ pre' = cpu
    /\ cpu' = c
    /\ last' = op
    /\ inst' = i
    /\ UNCHANGED <<program, regVars, aluVars, stackVars, jumpVars, runVars,
                 auxVars>>

\* i.execute(cpu)
Execute(i) == InstStep(InstExecute(i, cpu), Op("execute", -1, -1, -1), i)

\* addr.value(cpu), twice in a row: last.a is the first value, last.b the
\* second
Resolve(addr) ==
    LET r1 == Addressing8Resolve(addr, cpu)
        r2 == Addressing8Resolve(addr, r1.cpu)
    IN  InstStep(r2.cpu, Op("resolve", r1.ret, r2.ret, -1),
                 [k |-> "resolve", addr |-> addr])

\* cpu.alu_acc_op(control, operand): last.a is the result, last.b the flags
AluAccOpCall(control, operand) ==
    LET r == AluAccOp(cpu, control, operand)
    IN  InstStep(cpu, Op("alu_acc_op", r.res, r.flags, operand),
                 [k |-> "alu_acc_op", control |-> control])

\* Arithmetic::new(control, flags, dst, rhs).execute(cpu): last.a is the
\* mask of the flags to commit, last.b the flags the ALU computed, last.ret
\* its result
ExecArithmetic(control, flags, dst, rhsAddr) ==
    LET r == AluAccOp(cpu, control, Addressing8Value(rhsAddr, cpu))
    IN  InstStep(ArithmeticExecute(control, flags, dst, rhsAddr, cpu),
                 Op("arithmetic", FlagSetFromSlice(flags), r.flags, r.res),
                 [k |-> "typical::Arithmetic", control |-> control,
                  dst |-> dst, addr |-> rhsAddr])

\* cpu.flag_loader_mask_slice(flag_masks).load(bits): last.a is the or of
\* the masks given, last.b the bits loaded
FlagLoadMaskSliceCall(flag_masks, bits) ==
    InstStep(FlagLoadMaskSlice(cpu, flag_masks, bits),
             Op("flag_loader_mask_slice", FlagSetFromSlice(flag_masks), bits, -1),
             [k |-> "flag_loader_mask_slice"])

\* Condition { cond, then }.execute(cpu)
ExecCondition(cond, then) ==
    InstStep(ConditionExecute(cond, then, cpu), Op("condition", -1, -1, -1),
             [k |-> "typical::Condition", cond |-> cond, then |-> then])

InitInst ==
    /\ RegInit /\ AluIdle /\ StackIdle /\ JumpIdle /\ RunIdle /\ InstIdle
    /\ cpu \in InstStarts
    /\ pre = cpu
    /\ steps = 0
    /\ last = NoOp

NextInst ==
    \/ \E i \in InstVals : Execute(i)
    \/ \E addr \in AddrVals : Resolve(addr)
    \/ \E control \in BOOLEAN, operand \in OperandVals : AluAccOpCall(control, operand)
    \/ \E control \in BOOLEAN, flags \in SUBSET AdderFlags, dst \in {"A", "B"},
          rhsAddr \in {Immediate(100), ImmediateRegister("A")} :
          ExecArithmetic(control, flags, dst, rhsAddr)
    \/ \E cond \in CondVals, then \in ThenVals : ExecCondition(cond, then)
    \/ \E flag_masks \in SUBSET AdderFlags, bits \in {0, 3} :
          FlagLoadMaskSliceCall(flag_masks, bits)

SpecInst == InitInst /\ [][NextInst]_vars

\* the 16-bit cell a register code names, as a field of the machine
PairOf(c, code) ==
    CASE code \in {"A", "AF"} -> c.af
      [] code \in {"B", "C", "BC"} -> c.bc
      [] code \in {"H", "L", "HL"} -> c.hl

\* the byte at an address of the machine's memory (0 where nothing non-zero
\* was stored)
ByteAt(c, a) == IF a \in DOMAIN c.memory THEN c.memory[a] ELSE 0

\* C14: resolving an operand returns the literal for Immediate(v), the
\* register's contents for ImmediateRegister(code), memory[addr] for
\* DirectMemory(addr), and for Indirect(code) the byte memory[r], r the
\* 16-bit contents of the pair: what DirectMemory(r) resolves to.
C14_OperandResolution ==
    last.op = "resolve" =>
        LET addr == inst.addr
        IN  /\ addr.mode = "Immediate" => last.a = addr.v
            /\ addr.mode = "ImmediateRegister" =>
                   last.a = IF addr.reg \in {"C", "L"}
                            THEN PairOf(pre, addr.reg) % 256
                            ELSE PairOf(pre, addr.reg) \div 256
            /\ addr.mode = "DirectMemory" => last.a = ByteAt(pre, addr.v)
            /\ addr.mode = "Indirect" =>
                   /\ last.a = ByteAt(pre, PairOf(pre, addr.reg))
                   /\ last.a = Addressing8Value(DirectMemory(PairOf(pre, addr.reg)), pre)

\* an Indirect operand resolved through a pair that points at a non-zero
\* cell, and a register operand with distinct halves
C14_Witness ==
    /\ last.op = "resolve"
    /\ inst.addr = Indirect("HL")
    /\ pre.hl = 3
    /\ last.a = 3
    /\ pre.af = 51201

C18_ArithmeticCommitsListedFlags ==
    last.op = "arithmetic" =>
        /\ PairOf(cpu, inst.dst) \div 256 = last.ret
        /\ \A i \in 0..7 :
              Bit(last.a, i) = 0 => Bit(cpu.af, i) = Bit(pre.af, i)

\* C19: alu_acc_op(control, operand) returns the ALU's result and flags for
\* (accumulator, operand), and the accumulator, the flag register, the
\* other registers and the memory are the same after the call as before.
C19_AluAccOpCommitsNothing ==
    last.op = "alu_acc_op" =>
        LET acc == pre.af \div 256
            raw == IF inst.control THEN acc - last.ret ELSE acc + last.ret
        IN  /\ cpu = pre
            /\ last.a = raw % 256
            /\ last.b \in 0..3
            /\ Bit(last.b, 0) = IF raw \in 0..255 THEN 0 ELSE 1
            /\ Bit(last.b, 1) = IF raw % 256 >= 128 THEN 1 ELSE 0

\* 200 + 100 with the accumulator at 200: 44 and the Overflow flag come
\* back, AF still reads 200 in its high half and 1 in its low half
C19_Witness ==
    /\ last.op = "alu_acc_op"
    /\ ~inst.control
    /\ pre.af = 51201
    /\ last.ret = 100
    /\ last.a = 44
    /\ last.b = 1
    /\ cpu.af = 51201

\* C20: Condition(predicate, inner) evaluates the predicate on the state
\* before the instruction; when it holds the state afterwards is the one
\* inner alone produces from that state, otherwise the state is unchanged.
C20_ConditionGuardsInner ==
    last.op = "condition" =>
        LET holds == CASE inst.cond = "Overflow" -> Bit(pre.af, 0) = 1
                       [] inst.cond = "Signed" -> Bit(pre.af, 1) = 1
                       [] inst.cond = "AccZero" -> pre.af \div 256 = 0
                       [] inst.cond = "Always" -> TRUE
                       [] inst.cond = "Never" -> FALSE
        IN  cpu = IF holds THEN InstExecute(inst.then, pre) ELSE pre

\* the Overflow flag is on and the guarded Load A <- 10 is carried out
C20_Witness ==
    /\ last.op = "condition"
    /\ inst.cond = "Overflow"
    /\ inst.then = InstLoad("A", Immediate(10))
    /\ pre.af = 51201
    /\ cpu.af = 2561

(***************************************************************************)
(* typical.rs: the I8080 aggregate, its register codes and its operands,   *)
(* and typical::Load / typical::Store of instruction.rs executed on it.    *)
(* An I8080 is the record of its six Register16 cells and its memory.      *)
(***************************************************************************)
I8080Default ==
    [psw |-> 0, b |-> 0, d |-> 0, h |-> 0, sp |-> 0, pc |-> 0,
     memory |-> MemoryDefault]

I8080RegisterCode8Bit == {"A", "B", "C", "D", "E", "H", "L"}
I8080RegisterCode16Bit == {"PSW", "BC", "DE", "HL"}

\* a plausible slip: the arm of E answers false
I8080IsLowNoE(code) == code \in {"C", "L"}

\* I8080RegisterCode8Bit::is_low
I8080IsLow(code) == code \in {"C", "E", "L"}

\* <I8080 as RegisterSet<I8080RegisterCode8Bit>>::loader_of(code).load(bits)
I8080LoaderOf8(c, code, bits) ==
    LET low == I8080IsLow(code)
    IN  CASE code = "A" -> [c EXCEPT !.psw = Register16In8Load(c.psw, low, bits)]
          [] code = "B" -> [c EXCEPT !.b = Register16In8Load(c.b, low, bits)]
          [] code = "C" -> [c EXCEPT !.b = Register16In8Load(c.b, low, bits)]
          [] code = "D" -> [c EXCEPT !.d = Register16In8Load(c.d, low, bits)]
          [] code = "E" -> [c EXCEPT !.d = Register16In8Load(c.d, low, bits)]
          [] code = "H" -> [c EXCEPT !.h = Register16In8Load(c.h, low, bits)]
          [] code = "L" -> [c EXCEPT !.h = Register16In8Load(c.h, low, bits)]

\* <I8080 as RegisterSet<I8080RegisterCode8Bit>>::reader_of(code).read()
I8080ReaderOf8(c, code) ==
    LET low == I8080IsLow(code)
    IN  CASE code = "A" -> Register16In8Read(c.psw, low)
          [] code = "B" -> Register16In8Read(c.b, low)
          [] code = "C" -> Register16In8Read(c.b, low)
          [] code = "D" -> Register16In8Read(c.d, low)
          [] code = "E" -> Register16In8Read(c.d, low)
          [] code = "H" -> Register16In8Read(c.h, low)
          [] code = "L" -> Register16In8Read(c.h, low)

\* <I8080 as RegisterSet<I8080RegisterCode16Bit>>::loader_of(code).load(bits)
I8080LoaderOf16(c, code, bits) ==
    CASE code = "PSW" -> [c EXCEPT !.psw = Register16Load(c.psw, bits)]
      [] code = "BC" -> [c EXCEPT !.b = Register16Load(c.b, bits)]
      [] code = "DE" -> [c EXCEPT !.d = Register16Load(c.d, bits)]
      [] code = "HL" -> [c EXCEPT !.h = Register16Load(c.h, bits)]

\* <I8080 as RegisterSet<I8080RegisterCode16Bit>>::reader_of(code).read()
I8080ReaderOf16(c, code) ==
    CASE code = "PSW" -> Register16Read(c.psw)
      [] code = "BC" -> Register16Read(c.b)
      [] code = "DE" -> Register16Read(c.d)
      [] code = "HL" -> Register16Read(c.h)

\* <I8080 as CPUMemory>::memory_store
I8080MemoryStore(c, index, data) ==
    [c EXCEPT !.memory = MemoryStore(c.memory, index, data)]

\* <I8080 as CPUMemory>::memory_read
I8080MemoryRead(c, index) == MemoryRead(c.memory, index)

\* the operands: I8080Addressing8Bit (width 8) and I8080Addressing16Bit
\* (width 16), as records [width, mode, v, reg]
ImmediateValue8(v) == [width |-> 8, mode |-> "ImmediateValue", v |-> v, reg |-> "-"]
ImmediateRegister8(code) ==
    [width |-> 8, mode |-> "ImmediateRegister", v |-> 0, reg |-> code]
DirectValue8(index) == [width |-> 8, mode |-> "DirectValue", v |-> index, reg |-> "-"]
DirectRegister8(code) ==
    [width |-> 8, mode |-> "DirectRegister", v |-> 0, reg |-> code]
ImmediateValue16(v) == [width |-> 16, mode |-> "ImmediateValue", v |-> v, reg |-> "-"]
ImmediateRegister16(code) ==
    [width |-> 16, mode |-> "ImmediateRegister", v |-> 0, reg |-> code]

\* <I8080Addressing8Bit as Addressing<I8080>>::value
RECURSIVE I8080Addressing8BitValue(_, _)
I8080Addressing8BitValue(addr, c) ==
    CASE addr.mode = "ImmediateValue" -> addr.v
      [] addr.mode = "ImmediateRegister" -> I8080ReaderOf8(c, addr.reg)
      [] addr.mode = "DirectValue" -> I8080MemoryRead(c, addr.v)
      [] addr.mode = "DirectRegister" ->
             I8080Addressing8BitValue(DirectValue8(I8080ReaderOf16(c, addr.reg)), c)

\* <I8080Addressing16Bit as Addressing<I8080>>::value
I8080Addressing16BitValue(addr, c) ==
    CASE addr.mode = "ImmediateValue" -> addr.v
      [] addr.mode = "ImmediateRegister" -> I8080ReaderOf16(c, addr.reg)

\* self.src.value(cpu) / self.dst.value(cpu) for either operand type
I8080AddressingValue(addr, c) ==
    IF addr.width = 8 THEN I8080Addressing8BitValue(addr, c)
    ELSE I8080Addressing16BitValue(addr, c)

\* a plausible slip: an 8-bit destination is loaded through the 16-bit
\* loader of its cell
LoadExecuteWholeCell(dst, src, c) ==
    LET bits == I8080AddressingValue(src, c)
    IN  IF dst \in I8080RegisterCode8Bit
        THEN I8080LoaderOf16(c, CASE dst = "A" -> "PSW"
                                  [] dst \in {"B", "C"} -> "BC"
                                  [] dst \in {"D", "E"} -> "DE"
                                  [] dst \in {"H", "L"} -> "HL", bits)
        ELSE I8080LoaderOf16(c, dst, bits)

\* typical::Load::execute: the register set written is the one of the
\* destination code's type
LoadExecute(dst, src, c) ==
    LET bits == I8080AddressingValue(src, c)
    IN  IF dst \in I8080RegisterCode8Bit
        THEN I8080LoaderOf8(c, dst, bits)
        ELSE I8080LoaderOf16(c, dst, bits)

\* a plausible slip: the address is cut to the width of the data
StoreExecuteByteAddress(dst, src, c) ==
    LET dstv == I8080AddressingValue(dst, c) % (U8_MAX + 1)
        srcv == I8080AddressingValue(src, c)
    IN  I8080MemoryStore(c, dstv, srcv)

\* typical::Store::execute
StoreExecute(dst, src, c) ==
    LET dstv == I8080AddressingValue(dst, c)
        srcv == I8080AddressingValue(src, c)
    IN  I8080MemoryStore(c, dstv, srcv)

(***************************************************************************)
(* SpecI8080: Load and Store instructions on an I8080 from                 *)
(* I8080::default().                                                       *)
(***************************************************************************)
MaxI8080Steps == 3

Load8Vals ==
    {<<dst, src>> : dst \in I8080RegisterCode8Bit,
                    src \in {ImmediateValue8(36), ImmediateRegister8("A")}}
        \cup {<<"A", DirectValue8(4660)>>, <<"E", DirectRegister8("HL")>>,
              <<"L", ImmediateValue8(255)>>, <<"D", ImmediateRegister8("L")>>,
              <<"A", ImmediateValue8(0)>>}

Load16Vals ==
    {<<"HL", ImmediateRegister16("BC")>>, <<"HL", ImmediateValue16(4660)>>,
     <<"BC", ImmediateRegister16("HL")>>, <<"DE", ImmediateValue16(65535)>>,
     <<"PSW", ImmediateRegister16("DE")>>}

StoreVals ==
    {<<ImmediateValue16(4660), ImmediateRegister8("A")>>,
     <<ImmediateRegister16("HL"), ImmediateRegister8("C")>>,
     <<ImmediateRegister16("HL"), ImmediateValue8(255)>>,
     <<ImmediateRegister16("BC"), DirectRegister8("HL")>>}

I8080Step(c, op, i) ==
    /\ steps < MaxI8080Steps
    /\ steps' = steps + 1
    /\ pre' = cpu
    /\ cpu' = c
    /\ last' = op
    /\ inst' = i
    /\ UNCHANGED <<program, regVars, aluVars, stackVars, jumpVars, runVars,
                 auxVars>>

\* Load::new(dst, src).execute(cpu): last.a is the value the source
\* resolved to before the instruction
DoLoad(dst, src) ==
    I8080Step(LoadExecute(dst, src, cpu),
              Op("load", I8080AddressingValue(src, cpu), -1, -1),
              [k |-> "typical::Load", dst |-> dst, src |-> src])

\* Store::new(dst, src).execute(cpu): last.a is the address, last.b the
\* byte, both as resolved before the instruction
DoStore(dst, src) ==
    I8080Step(StoreExecute(dst, src, cpu),
              Op("store", I8080AddressingValue(dst, cpu),
                 I8080AddressingValue(src, cpu), -1),
              [k |-> "typical::Store", dst |-> dst, src |-> src])

InitI8080 ==
    /\ RegInit /\ AluIdle /\ StackIdle /\ JumpIdle /\ RunIdle /\ InstIdle
    /\ cpu = I8080Default
    /\ pre = I8080Default
    /\ steps = 0
    /\ last = NoOp

NextI8080 ==
    \/ \E p \in Load8Vals \cup Load16Vals : DoLoad(p[1], p[2])
    \/ \E p \in StoreVals : DoStore(p[1], p[2])

SpecI8080 == InitI8080 /\ [][NextI8080]_vars

\* the cell of an I8080 a register code lives in, and the byte of a machine
\* at an address
I8080CellOf(c, code) ==
    CASE code \in {"A", "PSW"} -> c.psw
      [] code \in {"B", "C", "BC"} -> c.b
      [] code \in {"D", "E", "DE"} -> c.d
      [] code \in {"H", "L", "HL"} -> c.h

I8080HalfOf(c, code) ==
    IF code \in {"C", "E", "L"} THEN I8080CellOf(c, code) % 256
    ELSE I8080CellOf(c, code) \div 256

\* what an operand denotes in a machine state, from the cells themselves
I8080Denotes(addr, c) ==
    CASE addr.mode = "ImmediateValue" -> addr.v
      [] addr.mode = "ImmediateRegister" /\ addr.width = 8 -> I8080HalfOf(c, addr.reg)
      [] addr.mode = "ImmediateRegister" /\ addr.width = 16 -> I8080CellOf(c, addr.reg)
      [] addr.mode = "DirectValue" -> ByteAt(c, addr.v)
      [] addr.mode = "DirectRegister" -> ByteAt(c, I8080CellOf(c, addr.reg))

\* C16: Load(dst, src) leaves dst holding the value src had before the
\* instruction and changes no other register half and no memory cell;
\* with B holding v, loading v into C makes BC read v * 256 + v, and a
\* 16-bit Load HL <- BC makes HL read what BC reads.
C16_LoadWritesOnlyDst ==
    last.op = "load" =>
        LET v == I8080Denotes(inst.src, pre)
        IN  /\ last.a = v
            /\ cpu.memory = pre.memory
            /\ cpu.sp = pre.sp /\ cpu.pc = pre.pc
            /\ inst.dst \in I8080RegisterCode8Bit =>
                   /\ I8080HalfOf(cpu, inst.dst) = v
                   /\ \A code \in I8080RegisterCode8Bit \ {inst.dst} :
                          I8080HalfOf(cpu, code) = I8080HalfOf(pre, code)
                   /\ cpu.psw % 256 = pre.psw % 256
            /\ inst.dst \in I8080RegisterCode16Bit =>
                   /\ I8080CellOf(cpu, inst.dst) = v
                   /\ \A code \in I8080RegisterCode16Bit \ {inst.dst} :
                          I8080CellOf(cpu, code) = I8080CellOf(pre, code)
            /\ (inst.dst = "C" /\ pre.b \div 256 = v) => cpu.b = v * 256 + v
            /\ (inst.dst = "HL" /\ inst.src = ImmediateRegister16("BC")) =>
                   cpu.h = pre.b /\ cpu.b = pre.b

\* B and C were loaded with 36, BC reads 36 * 256 + 36, and HL <- BC has
\* made HL read the same
C16_Witness ==
    /\ last.op = "load"
    /\ inst.dst = "HL"
    /\ inst.src = ImmediateRegister16("BC")
    /\ cpu.b = 9252
    /\ cpu.h = 9252
    /\ pre.h = 0

\* C17: Store(dst, src) resolves dst to an address a and src to a byte v in
\* the state before the instruction and leaves memory[a] = v, every other
\* memory cell and every register as they were.
C17_StoreWritesOneCell ==
    last.op = "store" =>
        LET a == I8080Denotes(inst.dst, pre)
            v == I8080Denotes(inst.src, pre)
        IN  /\ last.a = a /\ last.b = v
            /\ ByteAt(cpu, a) = v
            /\ \A x \in (DOMAIN cpu.memory \cup DOMAIN pre.memory) \ {a} :
                   ByteAt(cpu, x) = ByteAt(pre, x)
            /\ [cpu EXCEPT !.memory = pre.memory] = pre

\* the fixture's store: A = 36 stored at 0x1234
C17_Witness ==
    /\ last.op = "store"
    /\ inst.dst = ImmediateValue16(4660)
    /\ inst.src = ImmediateRegister8("A")
    /\ pre.psw = 9216
    /\ pre.memory = MemoryDefault
    /\ cpu.memory[4660] = 36

(***************************************************************************)
(* SpecFlag: a FlagSetBits<u8> value under set, reset, change and its      *)
(* three constructors, over the flags of the I8080 ALU (Sign, Zero,        *)
(* AuxiliaryCarry, Parity, Carry as 128, 64, 16, 4, 1).                    *)
(***************************************************************************)
I8080ALUFlag == {128, 64, 16, 4, 1}

MaxSliceLen == 2

FlagSlices == UNION {[1..n -> I8080ALUFlag] : n \in 0..MaxSliceLen}

SliceFlags(fs) == {fs[i] : i \in 1..Len(fs)}

FlagStep(bits, op, i) ==
    /\ flagSet' = bits
    /\ last' = op
    /\ inst' = i
    /\ UNCHANGED <<decoder, program, regVars, aluVars, cpuVars, stackVars, jumpVars,
                   runVars>>

\* flags.set(flag): last.a is the flag, last.b the bits before
FlagSetSetCall(flag) ==
    FlagStep(FlagSetSet(flagSet, flag), Op("set", flag, flagSet, -1), [k |-> "set"])

\* flags.reset(flag)
FlagSetResetCall(flag) ==
    FlagStep(FlagSetReset(flagSet, flag), Op("reset", flag, flagSet, -1),
             [k |-> "reset"])

\* flags.change(flag, set)
FlagSetChangeCall(flag, set) ==
    FlagStep(FlagSetChange(flagSet, flag, set), Op("change", flag, flagSet, -1),
             [k |-> "change", set |-> set])

\* FlagSetBits::all_on()
FlagSetAllOnCall ==
    FlagStep(FlagSetAllOn, Op("all_on", -1, flagSet, -1), [k |-> "all_on"])

\* FlagSetBits::all_off()
FlagSetAllOffCall ==
    FlagStep(FlagSetAllOff, Op("all_off", -1, flagSet, -1), [k |-> "all_off"])

\* FlagSetBits::from_slice(flags)
FlagSetFromSliceCall(fs) ==
    FlagStep(FlagSetFromSlice(SliceFlags(fs)), Op("from_slice", -1, flagSet, -1),
             [k |-> "from_slice", flags |-> fs])

InitFlag ==
    /\ RegInit /\ AluIdle /\ StackIdle /\ JumpIdle /\ RunIdle /\ InstIdle
    /\ cpu = CPU8Default
    /\ pre = CPU8Default
    /\ steps = 0
    /\ last = NoOp

NextFlag ==
    \/ \E flag \in I8080ALUFlag : FlagSetSetCall(flag)
    \/ \E flag \in I8080ALUFlag : FlagSetResetCall(flag)
    \/ \E flag \in I8080ALUFlag, set \in BOOLEAN : FlagSetChangeCall(flag, set)
    \/ FlagSetAllOnCall
    \/ FlagSetAllOffCall
    \/ \E fs \in FlagSlices : FlagSetFromSliceCall(fs)

SpecFlag == InitFlag /\ [][NextFlag]_vars

\* C21: over flags with distinct single-bit encodings, get_flag(f) is true
\* after set(f) and false after reset(f); set, reset and change of f leave
\* get_flag(g) as it was for every other flag g; all_off() has no flag set,
\* all_on() has every flag set, from_slice(fs) has exactly the flags of fs
\* set.
C21_FlagSetBits ==
    LET Others(f) == I8080ALUFlag \ {f}
        Kept(f) == \A g \in Others(f) :
                       FlagSetGetFlag(flagSet, g) = FlagSetGetFlag(last.b, g)
    IN  /\ last.op = "set" => FlagSetGetFlag(flagSet, last.a) /\ Kept(last.a)
        /\ last.op = "reset" => ~FlagSetGetFlag(flagSet, last.a) /\ Kept(last.a)
        /\ last.op = "change" =>
               /\ FlagSetGetFlag(flagSet, last.a) = inst.set
               /\ Kept(last.a)
        /\ last.op = "all_off" => \A g \in I8080ALUFlag : ~FlagSetGetFlag(flagSet, g)
        /\ last.op = "all_on" => \A g \in I8080ALUFlag : FlagSetGetFlag(flagSet, g)
        /\ last.op = "from_slice" =>
               \A g \in I8080ALUFlag :
                   FlagSetGetFlag(flagSet, g) <=> \E i \in 1..Len(inst.flags) : inst.flags[i] = g

\* Zero is reset in a set that had every flag on: the other four stay on
C21_Witness ==
    /\ last.op = "reset"
    /\ last.a = 64
    /\ last.b = 255
    /\ flagSet = 191

(***************************************************************************)
(* SpecMux: loads through the 8-bit and 16-bit register codes of an I8080, *)
(* each followed by a read through the same code, from I8080::default().   *)
(***************************************************************************)
MaxMuxSteps == 3

MuxBytes == {86, 255}
MuxWords == {4660, 39612}

MuxStep(c, op, i) ==
    /\ steps < MaxMuxSteps
    /\ steps' = steps + 1
    /\ pre' = cpu
    /\ cpu' = c
    /\ last' = op
    /\ inst' = i
    /\ UNCHANGED <<program, regVars, aluVars, stackVars, jumpVars, runVars, auxVars>>

\* cpu.loader_of(code).load(bits); cpu.reader_of(code).read() for an 8-bit
\* code: last.a is what was loaded, last.b what was read
MuxLoad8(code, bits) ==
    LET c == I8080LoaderOf8(cpu, code, bits)
    IN  MuxStep(c, Op("loader_of8", bits, I8080ReaderOf8(c, code), -1),
                [k |-> "loader_of", code |-> code])

\* the same for a 16-bit code
MuxLoad16(code, bits) ==
    LET c == I8080LoaderOf16(cpu, code, bits)
    IN  MuxStep(c, Op("loader_of16", bits, I8080ReaderOf16(c, code), -1),
                [k |-> "loader_of", code |-> code])

InitMux ==
    /\ RegInit /\ AluIdle /\ StackIdle /\ JumpIdle /\ RunIdle /\ InstIdle
    /\ cpu = I8080Default
    /\ pre = I8080Default
    /\ steps = 0
    /\ last = NoOp

NextMux ==
    \/ \E code \in I8080RegisterCode8Bit, bits \in MuxBytes : MuxLoad8(code, bits)
    \/ \E code \in I8080RegisterCode16Bit, bits \in MuxWords : MuxLoad16(code, bits)

SpecMux == InitMux /\ [][NextMux]_vars

\* C22: each code names one cell and one selector, the same for loader_of
\* and reader_of: A is the high byte of PSW, B/D/H the high and C/E/L the
\* low bytes of BC/DE/HL, a 16-bit code the whole cell.  A value loaded
\* through a code is read back through it, a pair reads as high * 256 + low
\* of its two 8-bit codes, and a load through a code changes no register of
\* another pair.
C22_RegisterMultiplexer ==
    /\ I8080ReaderOf16(cpu, "BC") =
           I8080ReaderOf8(cpu, "B") * 256 + I8080ReaderOf8(cpu, "C")
    /\ I8080ReaderOf16(cpu, "DE") =
           I8080ReaderOf8(cpu, "D") * 256 + I8080ReaderOf8(cpu, "E")
    /\ I8080ReaderOf16(cpu, "HL") =
           I8080ReaderOf8(cpu, "H") * 256 + I8080ReaderOf8(cpu, "L")
    /\ I8080ReaderOf8(cpu, "A") = cpu.psw \div 256
    /\ last.op \in {"loader_of8", "loader_of16"} =>
           LET Cell(code) == CASE code \in {"A", "PSW"} -> "psw"
                               [] code \in {"B", "C", "BC"} -> "b"
                               [] code \in {"D", "E", "DE"} -> "d"
                               [] code \in {"H", "L", "HL"} -> "h"
           IN  /\ last.b = last.a
               /\ \A f \in {"psw", "b", "d", "h", "sp", "pc", "memory"} \ {Cell(inst.code)} :
                      cpu[f] = pre[f]
               /\ inst.code \in {"A", "B", "D", "H"} =>
                      /\ cpu[Cell(inst.code)] \div 256 = last.a
                      /\ cpu[Cell(inst.code)] % 256 = pre[Cell(inst.code)] % 256
               /\ inst.code \in {"C", "E", "L"} =>
                      /\ cpu[Cell(inst.code)] % 256 = last.a
                      /\ cpu[Cell(inst.code)] \div 256 = pre[Cell(inst.code)] \div 256
               /\ inst.code \in I8080RegisterCode16Bit =>
                      cpu[Cell(inst.code)] = last.a

\* the register_set fixture on the PSW cell: 0x1234 loaded through the
\* pair, then 0x56 through A: the pair reads 0x5634
C22_Witness ==
    /\ last.op = "loader_of8"
    /\ inst.code = "A"
    /\ last.a = 86
    /\ pre.psw = 4660
    /\ cpu.psw = 22068

\* what an Addressing8 operand denotes in a machine state, from the cells
\* themselves
Denotes8(addr, c) ==
    CASE addr.mode = "Immediate" -> addr.v
      [] addr.mode = "ImmediateRegister" ->
             IF addr.reg \in {"C", "L"} THEN PairOf(c, addr.reg) % 256
             ELSE PairOf(c, addr.reg) \div 256
      [] addr.mode = "DirectMemory" -> ByteAt(c, addr.v)
      [] addr.mode = "Indirect" -> ByteAt(c, PairOf(c, addr.reg))

\* C23: within one instruction the source operands are resolved against
\* the state before the instruction, and only then is a destination
\* written: an Arithmetic whose rhs is the accumulator or its own
\* destination computes with the old register value, a store writes the
\* byte its data operand had before at the address its address operand had
\* before.
C23_SourcesBeforeWrites ==
    last.op = "execute" =>
        /\ inst.k = "Arithmetic" =>
               LET acc == pre.af \div 256
                   rhs == Denotes8(inst.addr, pre)
                   res == IF inst.control THEN (acc - rhs) % 256 ELSE (acc + rhs) % 256
               IN  /\ PairOf(cpu, inst.dst) \div 256 = res
                   /\ cpu.hl = pre.hl
                   /\ cpu.memory = pre.memory
        /\ inst.k = "StoreRegister" =>
               /\ ByteAt(cpu, pre.hl) = Denotes8(ImmediateRegister(inst.dst), pre)
               /\ [cpu EXCEPT !.memory = pre.memory] = pre

\* B <- A + B with A = 200 and B = 32: the old B is the operand, B reads
\* 232 afterwards and C keeps 100
C23_Witness ==
    /\ last.op = "execute"
    /\ inst = InstArithmetic(FALSE, "B", ImmediateRegister("B"))
    /\ pre.af = 51201
    /\ pre.bc = 8292
    /\ cpu.bc = 59492

\* C24: a load through the loader flag_loader_mask_slice(masks) returns
\* changes only the flag-register bits the masks name: every other flag bit
\* keeps the value it had, and the bits named take the loaded value.
C24_MaskSliceApplied ==
    last.op = "flag_loader_mask_slice" =>
        /\ \A i \in 0..7 :
              Bit(cpu.af, i) = IF Bit(last.a, i) = 1 THEN Bit(last.b, i)
                               ELSE Bit(pre.af, i)
        /\ cpu.af \div 256 = pre.af \div 256

(***************************************************************************)
(* instruction.rs tests: the two-register CPU8 {a, b}, its Instructions    *)
(* and the CPU8Decoder {len, buf}.  buf is the 2-byte array as a sequence  *)
(* (buf[0] of the source is buf[1] here).  A decoded instruction is a      *)
(* record [k, x]; k = "None" stands for the None the decoder returns while *)
(* an opcode is incomplete.                                                *)
(***************************************************************************)
TinyCPU8Default == [a |-> 0, b |-> 0]

CPU8DecoderDefault == [len |-> 0, buf |-> <<0, 0>>]

LoadA(x) == [k |-> "LoadA", x |-> x]
LoadB(x) == [k |-> "LoadB", x |-> x]
Add == [k |-> "Add", x |-> 0]
None == [k |-> "None", x |-> 0]

\* <Instructions<CPU8> as Instruction<CPU8>>::execute
InstructionsExecute(i, c) ==
    CASE i.k = "LoadA" -> [c EXCEPT !.a = i.x]
      [] i.k = "LoadB" -> [c EXCEPT !.b = i.x]
      [] i.k = "Add" -> [c EXCEPT !.a = (c.a + c.b) % (U8_MAX + 1)]

\* a plausible slip: the Add test looks at the byte just passed in
CPU8DecoderDecodeOnData(d, data) ==
    IF d.len >= Len(d.buf)
    THEN [panicked |-> TRUE, decoder |-> d, ret |-> None]
    ELSE LET buf == [d.buf EXCEPT ![d.len + 1] = data]
             len == d.len + 1
         IN  IF data = 2
             THEN [panicked |-> FALSE, decoder |-> [len |-> 0, buf |-> buf], ret |-> Add]
             ELSE IF len = 2
             THEN [panicked |-> FALSE, decoder |-> [len |-> 0, buf |-> buf],
                   ret |-> IF buf[1] = 0 THEN LoadA(buf[2]) ELSE LoadB(buf[2])]
             ELSE [panicked |-> FALSE, decoder |-> [len |-> len, buf |-> buf],
                   ret |-> None]

\* <CPU8Decoder as InstructionDecoder<CPU8>>::decode; indexing buf at or
\* past its length panics
CPU8DecoderDecode(d, data) ==
    IF d.len >= Len(d.buf)
    THEN [panicked |-> TRUE, decoder |-> d, ret |-> None]
    ELSE LET buf == [d.buf EXCEPT ![d.len + 1] = data]
             len == d.len + 1
         IN  IF len = 1 /\ buf[1] = 2
             THEN [panicked |-> FALSE, decoder |-> [len |-> 0, buf |-> buf], ret |-> Add]
             ELSE IF len = 2
             THEN [panicked |-> FALSE, decoder |-> [len |-> 0, buf |-> buf],
                   ret |-> IF buf[1] = 0 THEN LoadA(buf[2]) ELSE LoadB(buf[2])]
             ELSE [panicked |-> FALSE, decoder |-> [len |-> len, buf |-> buf],
                   ret |-> None]

(***************************************************************************)
(* SpecDecode: bytes fed to a CPU8Decoder one at a time, each decoded      *)
(* instruction executed on the CPU8 or dropped, from the defaults of both. *)
(***************************************************************************)
MaxDecodeSteps == 6

DecodeBytes == {0, 1, 2, 31, 41}

\* decoder.decode(data): last.a is the byte, last.b the pending count and
\* last.ret the first buffered byte, both as they were before the call
Decode(data) ==
    LET r == CPU8DecoderDecode(decoder, data)
    IN  /\ steps < MaxDecodeSteps
        /\ steps' = steps + 1
        /\ decoder' = r.decoder
        /\ inst' = IF r.panicked THEN [k |-> "panic", x |-> 0] ELSE r.ret
        /\ pre' = cpu
        /\ cpu' = cpu
        /\ last' = Op("decode", data, decoder.len, decoder.buf[1])
        /\ UNCHANGED <<flagSet, program, regVars, aluVars, stackVars, jumpVars, runVars>>

\* .unwrap().execute(&mut cpu) on what the last decode returned
ExecuteDecoded ==
    /\ steps < MaxDecodeSteps
    /\ last.op = "decode"
    /\ inst.k \in {"LoadA", "LoadB", "Add"}
    /\ steps' = steps + 1
    /\ pre' = cpu
    /\ cpu' = InstructionsExecute(inst, cpu)
    /\ last' = Op("execute_decoded", -1, -1, -1)
    /\ UNCHANGED <<inst, auxVars, program, regVars, aluVars, stackVars, jumpVars,
                   runVars>>

InitDecode ==
    /\ RegInit /\ AluIdle /\ StackIdle /\ JumpIdle /\ RunIdle
    /\ inst = None
    /\ program = <<>>
    /\ flagSet = 0
    /\ decoder = CPU8DecoderDefault
    /\ cpu = TinyCPU8Default
    /\ pre = TinyCPU8Default
    /\ steps = 0
    /\ last = NoOp

NextDecode ==
    \/ \E data \in DecodeBytes : Decode(data)
    \/ ExecuteDecoded

SpecDecode == InitDecode /\ [][NextDecode]_vars

\* C25: over any sequence of decode(byte) calls the decoder keeps the
\* partial opcode itself and leaves the CPU alone: a leading 2 yields Add
\* at once, any other leading byte yields None and the next byte x
\* completes it, as LoadA(x) after a leading 0 and LoadB(x) after any other
\* leading byte, also when x = 2; after every call the pending count is 0
\* or 1, so no call indexes the 2-byte buffer out of range.
C25_DecoderKeepsPartialOpcode ==
    /\ decoder.len \in {0, 1}
    /\ inst.k # "panic"
    /\ last.op = "decode" =>
           /\ cpu = pre
           /\ last.b = 0 /\ last.a = 2 =>
                  inst = [k |-> "Add", x |-> 0] /\ decoder.len = 0
           /\ last.b = 0 /\ last.a # 2 =>
                  /\ inst = [k |-> "None", x |-> 0]
                  /\ decoder.len = 1
                  /\ decoder.buf[1] = last.a
           /\ last.b = 1 =>
                  /\ inst = [k |-> IF last.ret = 0 THEN "LoadA" ELSE "LoadB", x |-> last.a]
                  /\ decoder.len = 0

\* after a leading 1, the byte 2 completes LoadB(2) and is not taken for Add
C25_Witness ==
    /\ last.op = "decode"
    /\ last.b = 1
    /\ last.ret = 1
    /\ last.a = 2
    /\ inst = [k |-> "LoadB", x |-> 2]
    /\ decoder.len = 0
    /\ cpu.a = 31

=============================================================================
